---------------------------- MODULE Spec2Model ----------------------------
(***************************************************************************)
(* A model of rubicon (src/rubicon/src/lib.rs): the role-conditional       *)
(* expansion of process_local! / thread_local! declarations, the dynamic   *)
(* loader that binds the imported symbols, the TrustedExtern wrappers, the *)
(* per-shared-object identity, the soprintln! environment gate and the     *)
(* Beacon colour hash.                                                     *)
(***************************************************************************)
EXTENDS Integers, Sequences, FiniteSets, TLC

(***************************************************************************)
(* Bounds of the model.                                                    *)
(***************************************************************************)
\* Beacon::new is applied to the inputs 0..MaxInput and to SpecialInputs.
MaxInput == 15

\* Shared objects of the process: 1 is the executable, 2..NumModules are the
\* dynamically loaded modules.
NumModules == 2
\* Threads of the process: 1 is the main thread.
NumThreads == 2
\* Counters are incremented while below MaxVal.
MaxVal == 2
\* A build processes at most MaxDecls declarations.
MaxDecls == 2
\* Size of a loaded image, in storage cells.
ImageSize == 16
\* Call sites of soprintln! in the process.
NumSites == 2

VARIABLES
    \* ---- build time (cargo build of one crate graph, per build) ----
    cFeatures,  \* [Builds -> SUBSET Features]: the cargo features selected
    cSource,    \* the dependent crate: [tl |-> the declarations in its
                \* thread_local! { .. }, pl |-> those in its process_local! { .. }]
    cStatus,    \* [Builds -> "pending" | "error" | "thread_local" |
                \*            "process_local" | "done"]
    cNext,      \* [Builds -> the declarations the next macro call is applied to]
    cOut,       \* [Builds -> set of items emitted so far]
    \* ---- run time (one process) ----
    base,       \* [Modules -> load base, 0 when not loaded]
    bound,      \* [Modules -> [extern ident -> resolved address]]
    mem,        \* [address -> content of the static stored there]
    tls,        \* [<<LocalKey address, thread>> -> content of the slot]
    thread,     \* [Threads -> "new" | "live" | "dead"]
    lastPL,     \* history: [process-scoped name -> value last written]
    lastTL,     \* history: [Threads -> value last written to the thread-scoped name]
    iPc,        \* [Threads -> the line of mod_a's init() the thread is at]
    iMod,       \* [Threads -> the module whose init() the thread executes, or 0]
    iReg,       \* [Threads -> the value of DANGEROUS the thread has read]
    \* ---- soprintln! ----
    sFeature,   \* whether the cargo feature soprintln is enabled
    env,        \* what std::env::var("SO_PRINTLN") returns now
    once,       \* [Sites -> state of the site's ENV_CHECKED]
    SHOULD_PRINT, \* [Sites -> the site's SHOULD_PRINT]
    tPc,        \* [Threads -> "idle" | "closure" | "load"]
    tSite,      \* [Threads -> the call site the thread executes]
    siteRead,   \* history: [Sites -> the values the site read, in order]
    printed,    \* history: [Sites -> whether the site has printed]
    \* ---- Beacon::new ----
    bPc,        \* Beacon::new: the next line to execute
    bU,         \* Beacon::new: the argument u (a u64, 8 little-endian bytes)
    bX,         \* hash: the local x
    bFloat,     \* hashed_float
    bH,         \* h, the hue in degrees
    bSector     \* hsl_to_rgb: (h * 6.0) as u8

buildVars == <<cFeatures, cSource, cStatus, cNext, cOut>>

runVars == <<base, bound, mem, tls, thread, lastPL, lastTL, iPc, iMod, iReg>>

traceVars == <<sFeature, env, once, SHOULD_PRINT, tPc, tSite, siteRead, printed>>

beaconVars == <<bPc, bU, bX, bFloat, bH, bSector>>

vars == <<buildVars, runVars, traceVars, beaconVars>>

Modules == 1..NumModules

Threads == 1..NumThreads

Vals == 0..MaxVal

(***************************************************************************)
(* Build time: the cargo features, and the expansion of process_local! and *)
(* thread_local! for each of them.                                         *)
(***************************************************************************)
Features == {"export-globals", "import-globals"}

\* The declarations of the crate mokio that mod_a uses: an interior-mutable
\* static, a thread-local and a `static mut`.
MOKIO_PL1 ==
    [name |-> "MOKIO_PL1", scope |-> "process", mut |-> FALSE, const |-> FALSE,
     init |-> 0]

MOKIO_TL1 ==
    [name |-> "MOKIO_TL1", scope |-> "thread", mut |-> FALSE, const |-> FALSE,
     init |-> 0]

DANGEROUS ==
    [name |-> "DANGEROUS", scope |-> "process", mut |-> TRUE, const |-> FALSE,
     init |-> 0]

\* mokio's source: one thread_local! and one process_local! invocation
MokioSource == [tl |-> <<MOKIO_TL1>>, pl |-> <<MOKIO_PL1, DANGEROUS>>]

MokioDecls == <<MOKIO_PL1, MOKIO_TL1, DANGEROUS>>

\* fault: the compile_error! guard is missing
CompileError_missing(fs) == FALSE

\* #[cfg(all(feature = "export-globals", feature = "import-globals"))]
\* compile_error!(...)
CompileError(fs) == "export-globals" \in fs /\ "import-globals" \in fs

\* pub static RUBICON_MODE: &str
RUBICON_MODE(fs) ==
    IF "import-globals" \in fs THEN "I"
    ELSE IF "export-globals" \in fs THEN "E"
    ELSE "N"

\* paste: [<$name __rubicon_export>]
PasteExport(name) == name \o "__rubicon_export"

\* paste: [<$name __rubicon_import>]
PasteImport(name) == name \o "__rubicon_import"

\* stringify!(<ident>): the identifier's characters
Stringify(ident) == ident

\* An item of the expansion.  kind: "static" and "thread_local" have storage
\* in the image of the module, "extern" has none.  symbol: the name the item
\* is published under in the dynamic symbol table ("" when it is not).  link:
\* the name an extern item is resolved under.  target: the item whose address
\* initialises this one ("" when it holds a plain value).
Item(kind, ident, ty, symbol, link, target, mut, init) ==
    [kind |-> kind, ident |-> ident, ty |-> ty, symbol |-> symbol,
     link |-> link, target |-> target, mut |-> mut, init |-> init]

\* macro_rules! thread_local, neither feature: ::std::thread_local!
thread_local_passthrough(d) ==
    { Item("thread_local", d.name, "LocalKey", "", "", "", FALSE, d.init) }

\* fault: the exporter publishes a reference to a second thread-local
thread_local_inner_export_copy(d) ==
    { Item("thread_local", d.name, "LocalKey", "", "", "", FALSE, d.init),
      Item("thread_local", d.name \o "__copy", "LocalKey", "", "", "", FALSE,
           d.init),
      Item("static", PasteExport(d.name), "&LocalKey", PasteExport(d.name),
           "", d.name \o "__copy", FALSE, 0) }

\* macro_rules! thread_local_inner, export-globals
thread_local_inner_export(d) ==
    { Item("thread_local", d.name, "LocalKey", "", "", "", FALSE, d.init),
      Item("static", PasteExport(d.name), "&LocalKey", PasteExport(d.name),
           "", d.name, FALSE, 0) }

\* fault: the importer asks for the name of its own extern declaration
thread_local_link_name_import(name) == Stringify(PasteImport(name))

\* the #[link_name] of an imported thread-local
thread_local_link_name(name) == Stringify(PasteExport(name))

\* fault: the importer declares a thread-local of its own
thread_local_inner_import_own(d) == thread_local_passthrough(d)

\* macro_rules! thread_local_inner, import-globals
thread_local_inner_import(d) ==
    { Item("extern", PasteImport(d.name), "&LocalKey", "",
           thread_local_link_name(d.name), "", FALSE, 0),
      Item("static", d.name, "TrustedExternDouble", "", "",
           PasteImport(d.name), FALSE, 0) }

\* macro_rules! process_local, neither feature: the declaration itself
process_local_passthrough(d) ==
    { Item("static", d.name, "T", "", "", "", d.mut, d.init) }

\* macro_rules! process_local_inner, export-globals
process_local_inner_export(d) ==
    { Item("static", d.name, "T", Stringify(PasteExport(d.name)), "", "",
           FALSE, d.init) }

\* macro_rules! process_local_inner_mut, export-globals
process_local_inner_mut_export(d) ==
    { Item("static", d.name, "T", Stringify(PasteExport(d.name)), "", "",
           TRUE, d.init) }

\* the #[link_name] of an imported static
process_local_link_name(name) == Stringify(PasteExport(name))

\* fault: the importer keeps the declaration, storage included
process_local_inner_import_owning(d) == process_local_passthrough(d)

\* macro_rules! process_local_inner, import-globals
process_local_inner_import(d) ==
    { Item("extern", PasteImport(d.name), "T", "",
           process_local_link_name(d.name), "", FALSE, 0),
      Item("static", d.name, "TrustedExtern", "", "", PasteImport(d.name),
           FALSE, 0) }

\* fault: the importer keeps the `static mut`, storage included
process_local_inner_mut_import_owning(d) ==
    { Item("static", d.name, "T", "", "", "", TRUE, d.init) }

\* macro_rules! process_local_inner_mut, import-globals
process_local_inner_mut_import(d) ==
    { Item("extern", d.name, "T", "", process_local_link_name(d.name), "",
           TRUE, 0) }

\* the result of one macro call: whether an arm matched, the items it
\* emitted, and the declarations of the recursive call it makes, if any
NoRule == [ok |-> FALSE, items |-> {}, more |-> FALSE, rest |-> <<>>]

Matched(items, more, rest) ==
    [ok |-> TRUE, items |-> items, more |-> more, rest |-> rest]

\* thread_local_inner!: the macro_rules that the selected features leave
\* defined
thread_local_inner(fs, d) ==
    (IF "export-globals" \in fs THEN thread_local_inner_export(d) ELSE {})
    \cup (IF "import-globals" \in fs THEN thread_local_inner_import(d) ELSE {})

\* process_local_inner!
process_local_inner(fs, d) ==
    (IF "export-globals" \in fs THEN process_local_inner_export(d) ELSE {})
    \cup (IF "import-globals" \in fs THEN process_local_inner_import(d) ELSE {})

\* process_local_inner_mut!
process_local_inner_mut(fs, d) ==
    (IF "export-globals" \in fs THEN process_local_inner_mut_export(d) ELSE {})
    \cup (IF "import-globals" \in fs THEN process_local_inner_mut_import(d)
                                     ELSE {})

\* One call of rubicon::thread_local! on the declarations r.  With neither
\* feature every non-empty token list goes to ::std::thread_local!.  With a
\* feature the arms are, in order: the empty list; one declaration with
\* `= const { expr }`, which calls thread_local! again without the const;
\* one declaration; a declaration followed by `;` and more.  `$expr:expr`
\* does not accept a `const { .. }` block, so a const declaration that is
\* followed by another declaration matches no arm.
thread_local(fs, r) ==
    IF fs = {}
    THEN IF r = <<>> THEN NoRule
         ELSE Matched(UNION { thread_local_passthrough(r[i]) : i \in DOMAIN r },
                      FALSE, <<>>)
    ELSE IF r = <<>> THEN Matched({}, FALSE, <<>>)
    ELSE IF r[1].const
    THEN IF Len(r) = 1
         THEN Matched({}, TRUE, << [r[1] EXCEPT !.const = FALSE] >>)
         ELSE NoRule
    ELSE IF Len(r) = 1 THEN Matched(thread_local_inner(fs, r[1]), FALSE, <<>>)
    ELSE Matched(thread_local_inner(fs, r[1]), TRUE, Tail(r))

\* One call of rubicon::process_local! on the declarations r.  With neither
\* feature every non-empty token list is passed through.  With a feature
\* the arms are: the empty list; one `static`; one `static mut`; a `static`
\* and more; a `static mut` and more.
process_local(fs, r) ==
    IF fs = {}
    THEN IF r = <<>> THEN NoRule
         ELSE Matched(UNION { process_local_passthrough(r[i]) : i \in DOMAIN r },
                      FALSE, <<>>)
    ELSE IF r = <<>> THEN Matched({}, FALSE, <<>>)
    ELSE LET items == IF r[1].mut THEN process_local_inner_mut(fs, r[1])
                                  ELSE process_local_inner(fs, r[1])
         IN  IF Len(r) = 1 THEN Matched(items, FALSE, <<>>)
             ELSE Matched(items, TRUE, Tail(r))

\* one call of the macro named mac
Expand(fs, mac, r) ==
    IF mac = "thread_local" THEN thread_local(fs, r) ELSE process_local(fs, r)

RECURSIVE ExpandRec(_, _, _)
\* a macro invocation with the recursive calls it makes: the items, or no
\* rule
ExpandRec(fs, mac, r) ==
    LET x == Expand(fs, mac, r)
    IN  IF ~x.ok \/ ~x.more THEN x
        ELSE LET y == ExpandRec(fs, mac, x.rest)
             IN  IF y.ok THEN Matched(x.items \cup y.items, FALSE, <<>>)
                 ELSE NoRule

\* the items of a crate whose macro invocations all expand
ExpandAll(fs, src) ==
    ExpandRec(fs, "thread_local", src.tl).items
    \cup ExpandRec(fs, "process_local", src.pl).items

(***************************************************************************)
(* Two builds of the same dependency, each with its own features: rubicon  *)
(* is compiled first (its cfg'd items are evaluated), then the dependent   *)
(* crate's declarations are expanded one by one, in source order.          *)
(***************************************************************************)
Builds == 1..2

DeclNames == {"FOO", "BAR", "BAZ"}

\* what a declaration in thread_local! { .. } can be: with or without
\* `const { .. }`
ThreadDecls ==
    { [name |-> n, scope |-> "thread", mut |-> FALSE, const |-> c, init |-> 0] :
        n \in DeclNames, c \in BOOLEAN }

\* what a declaration in process_local! { .. } can be: `static` or
\* `static mut`
ProcessDecls ==
    { [name |-> n, scope |-> "process", mut |-> mu, const |-> FALSE, init |-> 0] :
        n \in DeclNames, mu \in BOOLEAN }

\* the lists of at most k declarations drawn from U
Lists(U, k) == UNION { [1..j -> U] : j \in 0..k }

\* crates with one thread_local! and one process_local! invocation, of at
\* most MaxDecls declarations in all, names unique
Sources ==
    { src \in [tl : Lists(ThreadDecls, MaxDecls), pl : Lists(ProcessDecls, MaxDecls)] :
        LET all == src.tl \o src.pl
        IN  /\ Len(all) <= MaxDecls
            /\ \A i, j \in 1..Len(all) : i # j => all[i].name # all[j].name }

BuildInit ==
    /\ cFeatures \in [Builds -> SUBSET Features]
    /\ cSource \in Sources
    /\ cStatus = [b \in Builds |-> "pending"]
    /\ cNext = [b \in Builds |-> <<>>]
    /\ cOut = [b \in Builds |-> {}]

\* rustc compiles rubicon with the selected features, then turns to the
\* dependent crate's thread_local! { .. }
CompileRubicon(b) ==
    /\ cStatus[b] = "pending"
    /\ cStatus' = [cStatus EXCEPT ![b] =
                      IF CompileError(cFeatures[b]) THEN "error"
                      ELSE "thread_local"]
    /\ cNext' = [cNext EXCEPT ![b] =
                      IF CompileError(cFeatures[b]) THEN <<>> ELSE cSource.tl]
    /\ UNCHANGED <<cFeatures, cSource, cOut, runVars, traceVars, beaconVars>>

\* rustc expands the next macro call of the dependent crate; when no rule
\* matches the build fails and produces nothing
ExpandNext(b) ==
    /\ cStatus[b] \in {"thread_local", "process_local"}
    /\ LET x == Expand(cFeatures[b], cStatus[b], cNext[b])
       IN  /\ cOut' = [cOut EXCEPT ![b] = IF x.ok THEN @ \cup x.items ELSE {}]
           /\ cStatus' = [cStatus EXCEPT ![b] =
                            IF ~x.ok THEN "error"
                            ELSE IF x.more THEN @
                            ELSE IF @ = "thread_local" THEN "process_local"
                            ELSE "done"]
           /\ cNext' = [cNext EXCEPT ![b] =
                            IF ~x.ok THEN <<>>
                            ELSE IF x.more THEN x.rest
                            ELSE IF cStatus[b] = "thread_local" THEN cSource.pl
                            ELSE <<>>]
    /\ UNCHANGED <<cFeatures, cSource, runVars, traceVars, beaconVars>>

BuildNext ==
    \/ \E b \in Builds : CompileRubicon(b)
    \/ \E b \in Builds : ExpandNext(b)

BuildIdle ==
    /\ cFeatures = [b \in Builds |-> {}]
    /\ cSource = [tl |-> <<>>, pl |-> <<>>]
    /\ cStatus = [b \in Builds |-> "pending"]
    /\ cNext = [b \in Builds |-> <<>>]
    /\ cOut = [b \in Builds |-> {}]

(***************************************************************************)
(* Run time: one process.  The executable (module 1) is built with         *)
(* export-globals, every dynamically loaded module with import-globals;    *)
(* all of them embed mokio's declarations.                                 *)
(***************************************************************************)
ModFeatures(m) == IF m = 1 THEN {"export-globals"} ELSE {"import-globals"}

\* the build of every module: the items in its image
Images == [m \in Modules |-> ExpandAll(ModFeatures(m), MokioSource)]

\* the items in the image of module m
Items(m) == Images[m]

ItemOf(m, ident) == CHOOSE it \in Items(m) : it.ident = ident

\* the address of an item of an image loaded at base b
Addr(b, ident) == [inst |-> b, ident |-> ident]

Loaded(m) == base[m] # 0

\* the module whose image holds address a
ModAt(a) == CHOOSE m \in Modules : base[m] = a.inst

\* the addresses the loader can map an image at: one more than there are
\* modules, so that a module loaded again can land elsewhere
Bases == 1..(NumModules + 1)

FreeBases == { b \in Bases : \A m \in Modules : base[m] # b }

\* impl Deref for TrustedExtern<T>: self.0
TrustedExtern_deref(w) == w.f0

\* fault: one level of indirection only
TrustedExternDouble_deref_single(heap, w) == w.f0

\* impl Deref for TrustedExternDouble<T>: self.0, auto-dereferenced from
\* &&T to &T: a read of the reference that self.0 points to
TrustedExternDouble_deref(heap, w) == heap[w.f0]

\* the storage that an access to `ident` in the code of module m reaches: the
\* static itself, the extern's resolved address, or what the wrapper
\* dereferences to
PlaceOf(m, ident) ==
    LET it == ItemOf(m, ident)
    IN  IF it.kind = "extern" THEN bound[m][ident]
        ELSE IF it.ty = "TrustedExtern"
            THEN TrustedExtern_deref(mem[Addr(base[m], ident)])
        ELSE IF it.ty = "TrustedExternDouble"
            THEN TrustedExternDouble_deref(mem, mem[Addr(base[m], ident)])
        ELSE Addr(base[m], ident)

\* the definitions of symbol `name` among the loaded images, seen from a
\* loader state bs
Definitions(bs, name) ==
    UNION { { Addr(bs[e], it.ident) :
                it \in { i \in Items(e) : i.kind = "static" /\ i.symbol = name } } :
            e \in { x \in Modules : bs[x] # 0 } }

Externs(m) == { it \in Items(m) : it.kind = "extern" }

\* the content of the image of m once loaded at b with its externs resolved
\* as bnd: every static, initialised, and the marker SHARED_OBJECT_ID_REF
Image(m, b, bnd) ==
    LET statics == { it \in Items(m) : it.kind = "static" }
        value(it) ==
            IF it.target = "" THEN it.init
            ELSE IF it.ty = "&LocalKey" THEN Addr(b, it.target)
            ELSE [f0 |-> bnd[it.target]]
        cells == { Addr(b, it.ident) : it \in statics }
                     \cup { Addr(b, "SHARED_OBJECT_ID_REF") }
    IN  [a \in cells |->
            IF a.ident = "SHARED_OBJECT_ID_REF" THEN 0
            ELSE value(CHOOSE it \in statics : it.ident = a.ident)]

\* f extended by g (disjoint domains)
Merge(f, g) ==
    [x \in DOMAIN f \cup DOMAIN g |-> IF x \in DOMAIN g THEN g[x] ELSE f[x]]

Restrict(f, S) == [x \in S |-> f[x]]

NoBinding == [x \in {} |-> 0]

\* the process starts: the loader maps the executable, the main thread runs
RunInit ==
    /\ base = [m \in Modules |-> IF m = 1 THEN 1 ELSE 0]
    /\ bound = [m \in Modules |-> NoBinding]
    /\ mem = Image(1, base[1], NoBinding)
    /\ tls = [k \in {} |-> 0]
    /\ thread = [t \in Threads |-> IF t = 1 THEN "live" ELSE "new"]
    /\ lastPL = [n \in {MOKIO_PL1.name, DANGEROUS.name} |-> 0]
    /\ lastTL = [t \in Threads |-> MOKIO_TL1.init]
    /\ iPc = [t \in Threads |-> "idle"]
    /\ iMod = [t \in Threads |-> 0]
    /\ iReg = [t \in Threads |-> 0]

\* dlopen of module m: the loader maps the image at a free base and binds
\* every extern to a definition of its link name; it fails, changing
\* nothing, when a name has no definition
Load(m) ==
    /\ m # 1
    /\ ~Loaded(m)
    /\ \A x \in Externs(m) : Definitions(base, x.link) # {}
    /\ \E b \in FreeBases :
       \E bnd \in [{ x.ident : x \in Externs(m) } ->
                      UNION { Definitions(base, x.link) : x \in Externs(m) }] :
          /\ \A x \in Externs(m) : bnd[x.ident] \in Definitions(base, x.link)
          /\ base' = [base EXCEPT ![m] = b]
          /\ bound' = [bound EXCEPT ![m] = bnd]
          /\ mem' = Merge(mem, Image(m, b, bnd))
    /\ UNCHANGED <<tls, thread, lastPL, lastTL, iPc, iMod, iReg>>
    /\ UNCHANGED <<buildVars, traceVars, beaconVars>>

\* dlclose of module m: its image is unmapped, with the thread-local blocks
\* of its own thread_local items; no thread is executing its code
Unload(m) ==
    /\ m # 1
    /\ Loaded(m)
    /\ \A t \in Threads : iMod[t] # m
    /\ \A o \in Modules \ {m} : \A x \in DOMAIN bound[o] : bound[o][x].inst # base[m]
    /\ base' = [base EXCEPT ![m] = 0]
    /\ bound' = [bound EXCEPT ![m] = NoBinding]
    /\ mem' = Restrict(mem, { a \in DOMAIN mem : a.inst # base[m] })
    /\ tls' = Restrict(tls, { k \in DOMAIN tls : k[1].inst # base[m] })
    /\ UNCHANGED <<thread, lastPL, lastTL, iPc, iMod, iReg>>
    /\ UNCHANGED <<buildVars, traceVars, beaconVars>>

\* std::thread::spawn
Spawn(t) ==
    /\ thread[t] = "new"
    /\ thread' = [thread EXCEPT ![t] = "live"]
    /\ UNCHANGED <<base, bound, mem, tls, lastPL, lastTL, iPc, iMod, iReg>>
    /\ UNCHANGED <<buildVars, traceVars, beaconVars>>

\* a thread other than the main thread returns from its closure and ends:
\* its thread-local slots are destroyed
Exit(t) ==
    /\ t # 1
    /\ thread[t] = "live"
    /\ iPc[t] = "idle"
    /\ thread' = [thread EXCEPT ![t] = "dead"]
    /\ tls' = Restrict(tls, { k \in DOMAIN tls : k[2] # t })
    /\ UNCHANGED <<base, bound, mem, lastPL, lastTL, iPc, iMod, iReg>>
    /\ UNCHANGED <<buildVars, traceVars, beaconVars>>

\* the initial value of the thread-local behind a LocalKey
KeyInit(key) ==
    LET its == { it \in Items(ModAt(key)) :
                   it.ident = key.ident /\ it.kind = "thread_local" }
    IN  IF its = {} THEN 0 ELSE (CHOOSE it \in its : TRUE).init

\* LocalKey::with, the slot of thread t: created on first use
SlotValue(slots, key, t) ==
    IF <<key, t>> \in DOMAIN slots THEN slots[<<key, t>>] ELSE KeyInit(key)

\* what MOKIO_PL1.load() / a read of DANGEROUS returns in module m
ReadPL(m, name) == mem[PlaceOf(m, name)]

\* what MOKIO_TL1.with(|s| s.load()) returns in module m on thread t
ReadTL(m, t) == SlotValue(tls, PlaceOf(m, MOKIO_TL1.name), t)

\* the memory after a store of v to the process-scoped <name> in module m
StorePL(heap, m, name, v) == [heap EXCEPT ![PlaceOf(m, name)] = v]

\* the slots after a store of v to thread t's slot of MOKIO_TL1 in module m
StoreTL(slots, m, t, v) ==
    Merge(slots, [k \in {<<PlaceOf(m, MOKIO_TL1.name), t>>} |-> v])

Running(m, t) == Loaded(m) /\ thread[t] = "live"

\* the calls of init() that have not yet executed line 8
BeforeLine8 == { t \in Threads : iPc[t] \in {"with", "closure", "line8"} }

\* line 5-6: thread t calls init() of module m (soprintln::init!() is code
\* of the crate soprintln and touches none of the globals).  The number of
\* calls is bounded: MOKIO_PL1 stays at or below MaxVal.
init(m, t) ==
    /\ Running(m, t)
    /\ iPc[t] = "idle"
    /\ ReadPL(m, MOKIO_PL1.name) + Cardinality(BeforeLine8) < MaxVal
    /\ iPc' = [iPc EXCEPT ![t] = "with"]
    /\ iMod' = [iMod EXCEPT ![t] = m]
    /\ UNCHANGED <<base, bound, mem, tls, thread, lastPL, lastTL, iReg>>
    /\ UNCHANGED <<buildVars, traceVars, beaconVars>>

\* line 7, mokio::MOKIO_TL1.with(..): the first access of the thread creates
\* its slot, holding the initial value
With(t) ==
    /\ iPc[t] = "with"
    /\ tls' = StoreTL(tls, iMod[t], t, ReadTL(iMod[t], t))
    /\ iPc' = [iPc EXCEPT ![t] = "closure"]
    /\ UNCHANGED <<base, bound, mem, thread, lastPL, lastTL, iMod, iReg>>
    /\ UNCHANGED <<buildVars, traceVars, beaconVars>>

\* line 7, the closure: s.fetch_add(1, Ordering::Relaxed) on the slot
FetchAddTL(t) ==
    /\ iPc[t] = "closure"
    /\ tls' = StoreTL(tls, iMod[t], t, ReadTL(iMod[t], t) + 1)
    /\ lastTL' = [lastTL EXCEPT ![t] = ReadTL(iMod[t], t) + 1]
    /\ iPc' = [iPc EXCEPT ![t] = "line8"]
    /\ UNCHANGED <<base, bound, mem, thread, lastPL, iMod, iReg>>
    /\ UNCHANGED <<buildVars, traceVars, beaconVars>>

\* line 8: mokio::MOKIO_PL1.fetch_add(1, Ordering::Relaxed), one atomic
\* read-modify-write
FetchAddPL(t) ==
    /\ iPc[t] = "line8"
    /\ mem' = StorePL(mem, iMod[t], MOKIO_PL1.name,
                      ReadPL(iMod[t], MOKIO_PL1.name) + 1)
    /\ lastPL' = [lastPL EXCEPT ![MOKIO_PL1.name] =
                      ReadPL(iMod[t], MOKIO_PL1.name) + 1]
    /\ iPc' = [iPc EXCEPT ![t] = "read"]
    /\ UNCHANGED <<base, bound, tls, thread, lastTL, iMod, iReg>>
    /\ UNCHANGED <<buildVars, traceVars, beaconVars>>

\* line 10, mokio::inc_dangerous(): DANGEROUS += 1 on a `static mut` is a
\* plain load followed by a plain store; this is the load
IncDangerousRead(t) ==
    /\ iPc[t] = "read"
    /\ iReg' = [iReg EXCEPT ![t] = ReadPL(iMod[t], DANGEROUS.name)]
    /\ iPc' = [iPc EXCEPT ![t] = "write"]
    /\ UNCHANGED <<base, bound, mem, tls, thread, lastPL, lastTL, iMod>>
    /\ UNCHANGED <<buildVars, traceVars, beaconVars>>

\* line 10-12: the store of inc_dangerous(), which overwrites what other
\* threads have stored since the load; then soprintln!(..) and the return
IncDangerousWrite(t) ==
    /\ iPc[t] = "write"
    /\ mem' = StorePL(mem, iMod[t], DANGEROUS.name, iReg[t] + 1)
    /\ lastPL' = [lastPL EXCEPT ![DANGEROUS.name] = iReg[t] + 1]
    /\ iPc' = [iPc EXCEPT ![t] = "idle"]
    /\ iMod' = [iMod EXCEPT ![t] = 0]
    /\ iReg' = [iReg EXCEPT ![t] = 0]
    /\ UNCHANGED <<base, bound, tls, thread, lastTL>>
    /\ UNCHANGED <<buildVars, traceVars, beaconVars>>

\* `as *const _ as u64`: an address as an integer.  The images of the
\* modules lie ImageSize apart and SHARED_OBJECT_ID_REF has the same offset
\* in each of them, taken as 0.
AsU64(a) == a.inst * ImageSize

\* fault: the value of the marker instead of its address
shared_object_id_value(m) == mem[Addr(base[m], "SHARED_OBJECT_ID_REF")]

\* pub fn shared_object_id() -> u64: the address of the module's own
\* SHARED_OBJECT_ID_REF, as an integer
shared_object_id(m) == AsU64(Addr(base[m], "SHARED_OBJECT_ID_REF"))

RunNext ==
    \/ \E m \in Modules : Load(m)
    \/ \E m \in Modules : Unload(m)
    \/ \E t \in Threads : Spawn(t)
    \/ \E t \in Threads : Exit(t)
    \/ \E m \in Modules, t \in Threads : init(m, t)
    \/ \E t \in Threads : With(t)
    \/ \E t \in Threads : FetchAddTL(t)
    \/ \E t \in Threads : FetchAddPL(t)
    \/ \E t \in Threads : IncDangerousRead(t)
    \/ \E t \in Threads : IncDangerousWrite(t)

RunIdle ==
    /\ base = [m \in Modules |-> 0]
    /\ bound = [m \in Modules |-> NoBinding]
    /\ mem = NoBinding
    /\ tls = NoBinding
    /\ thread = [t \in Threads |-> "new"]
    /\ lastPL = NoBinding
    /\ lastTL = NoBinding
    /\ iPc = NoBinding
    /\ iMod = NoBinding
    /\ iReg = NoBinding

BeaconIdle ==
    /\ bPc = "idle"
    /\ bU = <<>>
    /\ bX = <<>>
    /\ bFloat = 0
    /\ bH = 0
    /\ bSector = 0

(***************************************************************************)
(* soprintln!: every expansion of the macro (a call site, in one loaded    *)
(* copy of a module) has its own statics ENV_CHECKED and SHOULD_PRINT.     *)
(* A thread that executes a call site runs ENV_CHECKED.call_once, then     *)
(* loads SHOULD_PRINT.                                                     *)
(***************************************************************************)
Sites == 1..NumSites

\* std::env::var("SO_PRINTLN"): Err when the variable is not set
NotPresent == [ok |-> FALSE, v |-> ""]

Present(v) == [ok |-> TRUE, v |-> v]

EnvResults == { NotPresent, Present("1"), Present("0"), Present("11") }

\* fault: any value of the variable enables the output
should_print_if_set(res) == res.ok

\* .map(|v| v == "1").unwrap_or(false)
should_print(res) == IF res.ok THEN res.v = "1" ELSE FALSE

TraceInit ==
    /\ sFeature \in BOOLEAN
    /\ env \in EnvResults
    /\ once = [s \in Sites |-> "incomplete"]
    /\ SHOULD_PRINT = [s \in Sites |-> FALSE]
    /\ tPc = [t \in Threads |-> "idle"]
    /\ tSite = [t \in Threads |-> 1]
    /\ siteRead = [s \in Sites |-> <<>>]
    /\ printed = [s \in Sites |-> FALSE]

\* another part of the program sets or removes the variable
SetEnv(r) ==
    /\ env # r
    /\ env' = r
    /\ UNCHANGED <<sFeature, once, SHOULD_PRINT, tPc, tSite, siteRead, printed,
                   buildVars, runVars, beaconVars>>

\* without the cargo feature soprintln the macro expands to nothing
CallDisabled(t, s) ==
    /\ ~sFeature
    /\ tPc[t] = "idle"
    /\ UNCHANGED vars

\* ENV_CHECKED.call_once: the first caller of the site runs the closure, a
\* caller that finds it running waits, a later caller skips it
CallOnce(t, s) ==
    /\ sFeature
    /\ tPc[t] = "idle"
    /\ once[s] # "running"
    /\ tSite' = [tSite EXCEPT ![t] = s]
    /\ tPc' = [tPc EXCEPT ![t] = IF once[s] = "incomplete" THEN "closure" ELSE "load"]
    /\ once' = [once EXCEPT ![s] = IF @ = "incomplete" THEN "running" ELSE @]
    /\ UNCHANGED <<sFeature, env, SHOULD_PRINT, siteRead, printed,
                   buildVars, runVars, beaconVars>>

\* the closure: the variable is read and SHOULD_PRINT stored
Closure(t) ==
    /\ tPc[t] = "closure"
    /\ SHOULD_PRINT' = [SHOULD_PRINT EXCEPT ![tSite[t]] = should_print(env)]
    /\ siteRead' = [siteRead EXCEPT ![tSite[t]] = Append(@, env)]
    /\ once' = [once EXCEPT ![tSite[t]] = "complete"]
    /\ tPc' = [tPc EXCEPT ![t] = "load"]
    /\ UNCHANGED <<sFeature, env, tSite, printed, buildVars, runVars, beaconVars>>

\* if SHOULD_PRINT.load(Ordering::Relaxed) { ... eprintln!(...) }
LoadAndPrint(t) ==
    /\ tPc[t] = "load"
    /\ printed' = [printed EXCEPT ![tSite[t]] = @ \/ SHOULD_PRINT[tSite[t]]]
    /\ tPc' = [tPc EXCEPT ![t] = "idle"]
    /\ UNCHANGED <<sFeature, env, once, SHOULD_PRINT, tSite, siteRead,
                   buildVars, runVars, beaconVars>>

TraceNext ==
    \/ \E r \in EnvResults : SetEnv(r)
    \/ \E t \in Threads, s \in Sites : CallDisabled(t, s)
    \/ \E t \in Threads, s \in Sites : CallOnce(t, s)
    \/ \E t \in Threads : Closure(t)
    \/ \E t \in Threads : LoadAndPrint(t)

TraceIdle ==
    /\ sFeature = FALSE
    /\ env = NotPresent
    /\ once = NoBinding
    /\ SHOULD_PRINT = NoBinding
    /\ tPc = NoBinding
    /\ tSite = NoBinding
    /\ siteRead = NoBinding
    /\ printed = NoBinding

\* the reads of the variable made so far, by all sites
EnvReads ==
    LET RECURSIVE sum(_)
        sum(s) == IF s = 0 THEN 0 ELSE Len(siteRead[s]) + sum(s - 1)
    IN  sum(NumSites)

\* soprintln! called from the threads of the process
InitTrace == TraceInit /\ BuildIdle /\ RunIdle /\ BeaconIdle

SpecTrace == InitTrace /\ [][TraceNext]_vars

\* the process
Init == RunInit /\ BuildIdle /\ TraceIdle /\ BeaconIdle

Next == RunNext

Spec == Init /\ [][Next]_vars

\* the builds
InitBuild == BuildInit /\ RunIdle /\ TraceIdle /\ BeaconIdle

SpecBuild == InitBuild /\ [][BuildNext]_vars

(***************************************************************************)
(* 64-bit unsigned integers are sequences of 8 bytes, least significant    *)
(* first, so that no intermediate value leaves the range of TLC's          *)
(* integers; arithmetic is modulo 2^64 as for u64::wrapping_mul.           *)
(***************************************************************************)
Pow2(n) == <<1, 2, 4, 8, 16, 32, 64, 128, 256>>[n + 1]

RECURSIVE NatToBytes(_, _)
NatToBytes(n, k) ==
    IF k = 0 THEN <<>> ELSE <<n % 256>> \o NatToBytes(n \div 256, k - 1)

NatToU64(n) == NatToBytes(n, 8)

U64_MAX == <<255, 255, 255, 255, 255, 255, 255, 255>>

\* const K: u64 = 0x517cc1b727220a95
K == <<149, 10, 34, 39, 183, 193, 124, 81>>

XorByte(a, b) ==
    LET bit(v, i) == (v \div Pow2(i)) % 2
        RECURSIVE go(_)
        go(i) == IF i = 8 THEN 0
                 ELSE ((bit(a, i) + bit(b, i)) % 2) * Pow2(i) + go(i + 1)
    IN  go(0)

\* column i of the schoolbook product, 1-based: sum of x[j] * y[i + 1 - j]
ColSum(x, y, i) ==
    LET RECURSIVE go(_)
        go(j) == IF j > i THEN 0 ELSE x[j] * y[i + 1 - j] + go(j + 1)
    IN  go(1)

\* x.wrapping_mul(y): the low 8 bytes of the product
wrapping_mul(x, y) ==
    LET RECURSIVE go(_, _)
        go(i, carry) ==
            IF i > 8 THEN <<>>
            ELSE LET s == ColSum(x, y, i) + carry
                 IN  <<s % 256>> \o go(i + 1, s \div 256)
    IN  go(1, 0)

\* fault: the fold shifts by 16
Shr16(x) == <<x[3], x[4], x[5], x[6], x[7], x[8], 0, 0>>

\* x >> 32
Shr32(x) == <<x[5], x[6], x[7], x[8], 0, 0, 0, 0>>

\* x ^ y
Xor64(x, y) == [i \in 1..8 |-> XorByte(x[i], y[i])]

\* fn hash(mut x: u64) -> u64
hash(x0) ==
    LET x1 == wrapping_mul(x0, K)
        x2 == Xor64(x1, Shr32(x1))
        x3 == wrapping_mul(x2, K)
        x4 == Xor64(x3, Shr32(x3))
    IN  wrapping_mul(x4, K)

(***************************************************************************)
(* f64: a finite non-negative double is [m |-> bits, e |-> exponent], the  *)
(* value m * 2^e, with m a sequence of bits, least significant first, of   *)
(* at most 53 bits, odd (or empty for 0.0): every value has one            *)
(* representation.  Every operation rounds to nearest, ties to even, as    *)
(* IEEE 754 binary64 does.                                                 *)
(***************************************************************************)
MantissaBits == 53

BytesToBits(x) == [i \in 1..(8 * Len(x)) |-> (x[((i - 1) \div 8) + 1] \div Pow2((i - 1) % 8)) % 2]

\* the position of the highest set bit, 0 when there is none
BitLen(b) ==
    IF \A i \in 1..Len(b) : b[i] = 0 THEN 0
    ELSE CHOOSE i \in 1..Len(b) : b[i] = 1 /\ \A j \in (i + 1)..Len(b) : b[j] = 0

\* the number of zero bits below the lowest set bit
TrailingZeros(b) ==
    IF \A i \in 1..Len(b) : b[i] = 0 THEN Len(b)
    ELSE (CHOOSE i \in 1..Len(b) : b[i] = 1 /\ \A j \in 1..(i - 1) : b[j] = 0) - 1

\* the unique representation of bits * 2^e
Norm(bits, e) ==
    LET l == BitLen(bits)
        z == TrailingZeros(bits)
    IN  IF l = 0 THEN [m |-> <<>>, e |-> 0]
        ELSE [m |-> SubSeq(bits, z + 1, l), e |-> e + z]

\* bits + 1: the carry runs through the low one bits
IncBits(b) ==
    LET ext == Append(b, 0)
        z   == CHOOSE i \in 1..Len(ext) : ext[i] = 0 /\ \A j \in 1..(i - 1) : ext[j] = 1
    IN  [i \in 1..Len(ext) |-> IF i < z THEN 0 ELSE IF i = z THEN 1 ELSE ext[i]]

\* `as f64` and the f64 operators round to nearest, ties to even: round up
\* when the first dropped bit is set and either a later one is or the kept
\* value is odd
RoundUpTiesEven(guard, rest, lsb) == guard = 1 /\ (rest \/ lsb = 1)

\* bits * 2^e (plus a non-zero fraction below the last bit when sticky),
\* rounded to a double
RoundF64(bits, e, sticky) ==
    LET l == BitLen(bits)
        d == l - MantissaBits
    IN  IF d <= 0 THEN Norm(bits, e)
        ELSE LET kept  == SubSeq(bits, d + 1, l)
                 guard == bits[d]
                 rest  == sticky \/ (\E i \in 1..(d - 1) : bits[i] = 1)
             IN  IF RoundUpTiesEven(guard, rest, kept[1])
                 THEN Norm(IncBits(kept), e + d)
                 ELSE Norm(kept, e + d)

RECURSIVE BitsToNat(_)
BitsToNat(b) == IF Len(b) = 0 THEN 0 ELSE b[1] + 2 * BitsToNat(Tail(b))

RECURSIVE NatToBits(_)
NatToBits(n) == IF n = 0 THEN <<>> ELSE <<n % 2>> \o NatToBits(n \div 2)

\* the bytes of a bit sequence, least significant first
BitsToBytes(b) ==
    LET bit(i) == IF i <= Len(b) THEN b[i] ELSE 0
    IN  [k \in 1..((Len(b) + 7) \div 8) |->
            bit(8 * k - 7) + 2 * bit(8 * k - 6) + 4 * bit(8 * k - 5)
            + 8 * bit(8 * k - 4) + 16 * bit(8 * k - 3) + 32 * bit(8 * k - 2)
            + 64 * bit(8 * k - 1) + 128 * bit(8 * k)]

\* bits * c for a small c (byte by byte, with carry)
MulSmallBits(bits, c) ==
    LET x == BitsToBytes(bits)
        RECURSIVE go(_, _)
        go(i, carry) ==
            IF i > Len(x) THEN NatToBytes(carry, 2)
            ELSE LET s == x[i] * c + carry
                 IN  <<s % 256>> \o go(i + 1, s \div 256)
    IN  BytesToBits(go(1, 0))

\* bits divided by a small c: the quotient and the remainder (long division,
\* most significant byte first)
DivSmallBits(bits, c) ==
    LET x == BitsToBytes(bits)
        RECURSIVE go(_, _)
        go(i, r) ==
            IF i = 0 THEN [q |-> <<>>, r |-> r]
            ELSE LET v    == 256 * r + x[i]
                     down == go(i - 1, v % c)
                 IN  [q |-> Append(down.q, v \div c), r |-> down.r]
        d == go(Len(x), 0)
    IN  [q |-> BytesToBits(d.q), r |-> d.r]

Zeros(n) == [i \in 1..n |-> 0]

\* extra quotient bits computed by FDiv, enough for a 53-bit quotient and a
\* guard bit whatever the operands
DivShift == MantissaBits + 7

\* <u64> as f64
U64AsF64(x) == RoundF64(BytesToBits(x), 0, FALSE)

\* a * b, for an operand b whose mantissa is a small integer
FMul(a, b) == RoundF64(MulSmallBits(a.m, BitsToNat(b.m)), a.e + b.e, FALSE)

\* a / b, for an operand b whose mantissa is a small integer
FDiv(a, b) ==
    IF Len(a.m) = 0 THEN a
    ELSE LET d == DivSmallBits(Zeros(DivShift) \o a.m, BitsToNat(b.m))
         IN  RoundF64(d.q, a.e - b.e - DivShift, d.r # 0)

\* -1, 0 or 1 as a < b, a = b or a > b
FCmp(a, b) ==
    LET la == Len(a.m) + a.e
        lb == Len(b.m) + b.e
        lo == IF a.e < b.e THEN a.e ELSE b.e
        am == Zeros(a.e - lo) \o a.m
        bm == Zeros(b.e - lo) \o b.m
        diff == { i \in 1..Len(am) : am[i] # bm[i] }
        top  == CHOOSE i \in diff : \A j \in diff : j <= i
    IN  IF Len(a.m) = 0 /\ Len(b.m) = 0 THEN 0
        ELSE IF Len(a.m) = 0 THEN -1
        ELSE IF Len(b.m) = 0 THEN 1
        ELSE IF la < lb THEN -1
        ELSE IF la > lb THEN 1
        ELSE IF diff = {} THEN 0
        ELSE IF am[top] < bm[top] THEN -1
        ELSE 1

\* <f64> as u8: truncation toward zero, saturating at 255
FAsU8(a) ==
    LET l == Len(a.m) + a.e
    IN  IF l <= 0 THEN 0
        ELSE IF l > 8 THEN 255
        ELSE IF a.e >= 0 THEN BitsToNat(Zeros(a.e) \o a.m)
        ELSE BitsToNat(SubSeq(a.m, 1 - a.e, Len(a.m)))

F360 == Norm(NatToBits(360), 0)

F6 == Norm(NatToBits(6), 0)

\* let hashed_float = (hash(u) as f64) / (u64::MAX as f64);
HashedFloat(x) == FDiv(U64AsF64(x), U64AsF64(U64_MAX))

\* let h = hashed_float * 360.0;
Hue(f) == FMul(f, F360)

\* hsl_to_rgb: let h = h / 360.0; ... match (h * 6.0) as u8
Sector(h) == FAsU8(FMul(FDiv(h, F360), F6))

(***************************************************************************)
(* Beacon::new, one action per line of hash and per later statement.       *)
(***************************************************************************)
\* the u64 values with hash(u) = 2^64-1, 2^64-1024, 2^64-1025 and 2^64-2048
SpecialInputs ==
    { <<196, 222, 136, 208, 205, 227, 102, 104>>,
      <<164, 146, 142, 7, 113, 213, 178, 191>>,
      <<128, 244, 102, 86, 35, 184, 226, 199>>,
      <<130, 203, 111, 123, 107, 58, 85, 1>> }

BeaconInputs == { NatToU64(n) : n \in 0..MaxInput } \cup SpecialInputs

F0 == [m |-> <<>>, e |-> 0]

BeaconInit ==
    /\ bPc = "mul1"
    /\ bU \in BeaconInputs
    /\ bX = bU
    /\ bFloat = F0
    /\ bH = F0
    /\ bSector = 0

HashMul(from, to) ==
    /\ bPc = from
    /\ bX' = wrapping_mul(bX, K)
    /\ bPc' = to
    /\ UNCHANGED <<bU, bFloat, bH, bSector, buildVars, runVars, traceVars>>

HashFold(from, to) ==
    /\ bPc = from
    /\ bX' = Xor64(bX, Shr32(bX))
    /\ bPc' = to
    /\ UNCHANGED <<bU, bFloat, bH, bSector, buildVars, runVars, traceVars>>

BeaconFloat ==
    /\ bPc = "float"
    /\ bFloat' = HashedFloat(bX)
    /\ bPc' = "hue"
    /\ UNCHANGED <<bU, bX, bH, bSector, buildVars, runVars, traceVars>>

BeaconHue ==
    /\ bPc = "hue"
    /\ bH' = Hue(bFloat)
    /\ bPc' = "sector"
    /\ UNCHANGED <<bU, bX, bFloat, bSector, buildVars, runVars, traceVars>>

BeaconSector ==
    /\ bPc = "sector"
    /\ bSector' = Sector(bH)
    /\ bPc' = "done"
    /\ UNCHANGED <<bU, bX, bFloat, bH, buildVars, runVars, traceVars>>

BeaconNext ==
    \/ HashMul("mul1", "fold1")
    \/ HashFold("fold1", "mul2")
    \/ HashMul("mul2", "fold2")
    \/ HashFold("fold2", "mul3")
    \/ HashMul("mul3", "float")
    \/ BeaconFloat
    \/ BeaconHue
    \/ BeaconSector

\* Beacon::new on one input
InitBeacon == BeaconInit /\ BuildIdle /\ RunIdle /\ TraceIdle

SpecBeacon == InitBeacon /\ [][BeaconNext]_vars

(***************************************************************************)
(* The claims.                                                             *)
(***************************************************************************)
PLNames == {MOKIO_PL1.name, DANGEROUS.name}

Importers == { m \in Modules : ModFeatures(m) = {"import-globals"} }

Exporter == CHOOSE m \in Modules : ModFeatures(m) = {"export-globals"}

\* C1: with one exporting module and the importing modules loaded in one
\* process, an access to a process-scoped declaration (the interior-mutable
\* MOKIO_PL1, the `static mut` DANGEROUS) in any loaded module reaches one and
\* the same cell, the exporter's static, and a read through any module
\* returns the value of the last write, whichever module wrote it.
C1_WriteVisibility ==
    \A name \in PLNames : \A m \in Modules :
        Loaded(m) =>
            /\ PlaceOf(m, name) = Addr(base[Exporter], name)
            /\ ReadPL(m, name) = lastPL[name]

\* C1 witness: init() of the exporter has completed on one thread, and
\* init() of an importer has just incremented MOKIO_PL1 to 2 on another
\* thread, which has not yet touched DANGEROUS; the exporter and the
\* importer both read MOKIO_PL1 = 2 and DANGEROUS = 1.
C1_Witness ==
    \E m \in Importers : \E t \in Threads :
        /\ Loaded(m)
        /\ iMod[t] = m /\ iPc[t] = "read"
        /\ <<Addr(base[Exporter], MOKIO_TL1.name), t>> \in DOMAIN tls
        /\ \E o \in Threads \ {t} : iPc[o] = "idle" /\ lastTL[o] = 1
        /\ ReadPL(Exporter, MOKIO_PL1.name) = 2
        /\ ReadPL(m, MOKIO_PL1.name) = 2
        /\ ReadPL(Exporter, DANGEROUS.name) = 1
        /\ ReadPL(m, DANGEROUS.name) = 1

\* C2: a read of the thread-scoped declaration through any loaded module, on
\* a live thread t, returns the value last written on t through any module,
\* and the initial value on a thread that never wrote.
C2_ThreadSlotSharing ==
    \A m \in Modules : \A t \in Threads :
        Running(m, t) => ReadTL(m, t) = lastTL[t]

\* C2 witness: thread 1 holds 1, read as 1 through the exporter and an
\* importer; thread 2 is live, never wrote, and the importer reads 0 on it.
C2_Witness ==
    \E m \in Importers :
        /\ Loaded(m)
        /\ thread[2] = "live"
        /\ ReadTL(m, 1) = 1
        /\ ReadTL(Exporter, 1) = 1
        /\ \A k \in DOMAIN tls : k[2] # 2
        /\ ReadTL(m, 2) = MOKIO_TL1.init

\* C5: in a loaded importing module, the single-indirection wrapper
\* dereferences to the reference it was built on (the resolved extern), the
\* double-indirection wrapper to what the reference it was built on points
\* to (the exporter's LocalKey, never the intermediate reference), and a read
\* through either wrapper returns what a direct access to the underlying
\* storage returns.
C5_WrapperTransparency ==
    \A m \in Importers :
        Loaded(m) =>
            LET w1 == mem[Addr(base[m], MOKIO_PL1.name)]
                r1 == bound[m][MOKIO_PL1.name \o "__rubicon_import"]
                w2 == mem[Addr(base[m], MOKIO_TL1.name)]
                r2 == bound[m][MOKIO_TL1.name \o "__rubicon_import"]
            IN  /\ w1.f0 = r1
                /\ TrustedExtern_deref(w1) = r1
                /\ ReadPL(m, MOKIO_PL1.name) = mem[r1]
                /\ ReadPL(m, MOKIO_PL1.name) = ReadPL(Exporter, MOKIO_PL1.name)
                /\ w2.f0 = r2
                /\ TrustedExternDouble_deref(mem, w2) = mem[r2]
                /\ TrustedExternDouble_deref(mem, w2) # r2
                /\ mem[r2] = Addr(base[Exporter], MOKIO_TL1.name)
                /\ \A t \in Threads :
                      thread[t] = "live" =>
                          /\ ReadTL(m, t) = SlotValue(tls, mem[r2], t)
                          /\ ReadTL(m, t) = ReadTL(Exporter, t)

\* C5 witness: an importer is loaded and reads, through its two wrappers,
\* values that have been written.
C5_Witness ==
    \E m \in Importers :
        /\ Loaded(m)
        /\ ReadPL(m, MOKIO_PL1.name) = 2
        /\ <<Addr(base[Exporter], MOKIO_TL1.name), 1>> \in DOMAIN tls
        /\ ReadTL(m, 1) = 1

C6_Distinct ==
    \A m, n \in Modules :
        (Loaded(m) /\ Loaded(n) /\ m # n) => shared_object_id(m) # shared_object_id(n)

C6_Stable ==
    \A m \in Modules :
        (Loaded(m) /\ Loaded(m)') => shared_object_id(m)' = shared_object_id(m)

\* C6: at every moment two loaded modules have distinct shared_object_id()
\* values, and the value of a module does not change while it stays loaded,
\* whatever else is loaded, unloaded or called.
C6_Identity == []C6_Distinct /\ [][C6_Stable]_vars

\* C6 witness: every module is loaded, after counters have been written.
C6_Witness ==
    /\ \A m \in Modules : Loaded(m)
    /\ \E m \in Importers : shared_object_id(m) # shared_object_id(Exporter)
    /\ lastPL[MOKIO_PL1.name] = 1

\* whether an item is backing storage of a declared value
IsStorage(it) == it.kind = "thread_local" \/ (it.kind = "static" /\ it.ty = "T")

\* the wrapper (or extern) that stands for declaration d in importer m is as
\* the transformer must emit it, and bound as the loader must bind it
C9_Form(m, d) ==
    LET it     == ItemOf(m, d.name)
        stable == d.name \o "__rubicon_export"
    IN  /\ \A x \in Items(m) : ~IsStorage(x)
        /\ IF d.scope = "thread"
           THEN /\ it.kind = "static" /\ it.ty = "TrustedExternDouble"
                /\ Loaded(m) =>
                      /\ mem[Addr(base[m], d.name)].f0 \in Definitions(base, stable)
                      /\ mem[mem[Addr(base[m], d.name)].f0] = Addr(base[Exporter], d.name)
           ELSE IF d.mut
           THEN /\ it.kind = "extern" /\ it.link = stable
                /\ Loaded(m) => bound[m][d.name] \in Definitions(base, stable)
           ELSE /\ it.kind = "static" /\ it.ty = "TrustedExtern"
                /\ Loaded(m) =>
                      mem[Addr(base[m], d.name)].f0 \in Definitions(base, stable)

C9_Forms ==
    \A m \in Importers : \A i \in 1..Len(MokioDecls) : C9_Form(m, MokioDecls[i])

\* the wrappers and the bindings of a module do not change while it is loaded
C9_SetOnce ==
    \A m \in Importers :
        (Loaded(m) /\ Loaded(m)') =>
            /\ bound'[m] = bound[m]
            /\ \A it \in Items(m) :
                  it.kind = "static" =>
                      mem'[Addr(base[m], it.ident)] = mem[Addr(base[m], it.ident)]

\* C9 (amended): an importing module has no backing storage; an immutable
\* process-scoped declaration becomes a TrustedExtern around the reference
\* resolved under the stable name, a thread-scoped one a TrustedExternDouble
\* around the resolved reference to the exporter's reference to its LocalKey,
\* and a `static mut` becomes the extern static itself, resolved under the
\* stable name, with no wrapper; the wrappers and bindings are set at load
\* time and never reassigned.
C9_ImportForms == []C9_Forms /\ [][C9_SetOnce]_vars

\* C9 witness: an importer is loaded and the statics behind its wrappers
\* have been written.
C9_Witness ==
    \E m \in Importers :
        /\ Loaded(m)
        /\ ReadPL(m, MOKIO_PL1.name) = 2
        /\ ReadPL(m, DANGEROUS.name) = 2
        /\ ReadTL(m, 1) = 2

\* C9 as stated: every process-scoped declaration, mutable ones included,
\* becomes a single-indirection wrapper in an importing module.
C9_Original ==
    \A m \in Importers : \A i \in 1..Len(MokioDecls) :
        (Loaded(m) /\ MokioDecls[i].scope = "process") =>
            /\ ItemOf(m, MokioDecls[i].name).ty = "TrustedExtern"
            /\ Addr(base[m], MokioDecls[i].name) \in DOMAIN mem

C10_OneSlot ==
    \A t \in Threads :
        /\ Cardinality({ k \in DOMAIN tls : k[2] = t }) <= 1
        /\ (\E k \in DOMAIN tls : k[2] = t) => thread[t] = "live"

C10_Lifecycle ==
    /\ \A k \in DOMAIN tls : thread'[k[2]] = "live" => k \in DOMAIN tls'
    /\ \A k \in DOMAIN tls' \ DOMAIN tls :
          /\ lastTL[k[2]] = MOKIO_TL1.init
          /\ tls'[k] = MOKIO_TL1.init
          /\ k[1] = Addr(base[Exporter], MOKIO_TL1.name)

\* C10: a thread has at most one slot of the thread-scoped declaration, and
\* only while it is live; the slot is created by the thread's first access,
\* through whichever module, under the exporter's LocalKey and holding the
\* initial value, and stays until the thread terminates.
C10_ThreadSlots == []C10_OneSlot /\ [][C10_Lifecycle]_vars

\* C10 witness: both threads have their slot, written through some module,
\* with an importer loaded.
C10_Witness ==
    /\ \E m \in Importers : Loaded(m)
    /\ Cardinality(DOMAIN tls) = 2
    /\ \A k \in DOMAIN tls : tls[k] = 1

BothRoles(b) == {"export-globals", "import-globals"} \subseteq cFeatures[b]

\* C3: a build with both export-globals and import-globals never expands a
\* declaration and never emits an item: it is pending or has failed.
C3_RoleExclusivity ==
    \A b \in Builds :
        BothRoles(b) =>
            /\ cStatus[b] \in {"pending", "error"}
            /\ cNext[b] = <<>>
            /\ cOut[b] = {}

\* C3 witness: a build of two declarations with both features has failed, and
\* the other build, with one role, has completed.
C3_Witness ==
    \E b, o \in Builds :
        /\ BothRoles(b) /\ cStatus[b] = "error"
        /\ ~BothRoles(o) /\ cStatus[o] = "done" /\ cOut[o] # {}
        /\ Len(cSource.tl) = 1
        /\ Len(cSource.pl) = 1

\* the names an exporting build publishes
Published(b) == { it.symbol : it \in { x \in cOut[b] : x.symbol # "" } }

\* the names an importing build asks the loader for
Required(b) == { it.link : it \in { x \in cOut[b] : x.kind = "extern" } }

NamesOf(ds) == { ds[i].name : i \in DOMAIN ds }

\* the declarations a build has expanded so far
Expanded(b) ==
    IF cStatus[b] = "thread_local"
    THEN NamesOf(cSource.tl) \ NamesOf(cNext[b])
    ELSE IF cStatus[b] = "process_local"
    THEN NamesOf(cSource.tl) \cup (NamesOf(cSource.pl) \ NamesOf(cNext[b]))
    ELSE IF cStatus[b] = "done" THEN NamesOf(cSource.tl \o cSource.pl)
    ELSE {}

\* C4: for an exporting and an importing build of the same declarations, the
\* names published and the names required are, for every declaration
\* expanded, the declaration's name followed by "__rubicon_export", whatever
\* its scope and mutability.
C4_NameStability ==
    \A be, bi \in Builds :
        (cFeatures[be] = {"export-globals"} /\ cFeatures[bi] = {"import-globals"}) =>
            /\ Published(be) = { n \o "__rubicon_export" : n \in Expanded(be) }
            /\ Required(bi) = { n \o "__rubicon_export" : n \in Expanded(bi) }
            /\ (cStatus[be] = "done" /\ cStatus[bi] = "done") =>
                   /\ Published(be) = Required(bi)
                   /\ Expanded(be) = NamesOf(cSource.tl \o cSource.pl)

\* C4 witness: an exporting and an importing build of a const thread-local
\* and a `static mut` are both done.
C4_Witness ==
    \E be, bi \in Builds :
        /\ cFeatures[be] = {"export-globals"} /\ cStatus[be] = "done"
        /\ cFeatures[bi] = {"import-globals"} /\ cStatus[bi] = "done"
        /\ Len(cSource.tl) = 1 /\ cSource.tl[1].const
        /\ Len(cSource.pl) = 1 /\ cSource.pl[1].mut
        /\ Published(be) = {"FOO__rubicon_export", "BAR__rubicon_export"}

\* C7 (amended): each call site reads SO_PRINTLN at most once, the first time
\* it is executed, and keeps the answer; a site's SHOULD_PRINT is set, and
\* the site prints, only if the value that this site read was exactly "1".
C7_OncePerSite ==
    \A s \in Sites :
        /\ Len(siteRead[s]) <= 1
        /\ once[s] = "complete" =>
              /\ Len(siteRead[s]) = 1
              /\ SHOULD_PRINT[s] = (siteRead[s][1] = [ok |-> TRUE, v |-> "1"])
        /\ once[s] # "complete" => (~SHOULD_PRINT[s] /\ siteRead[s] = <<>>)
        /\ printed[s] => siteRead[s] = << [ok |-> TRUE, v |-> "1"] >>
        /\ ~sFeature => siteRead[s] = <<>>

\* C7 witness: one site has printed, another has read a different value and
\* stays silent.
C7_Witness ==
    \E s1, s2 \in Sites :
        /\ printed[s1]
        /\ once[s2] = "complete"
        /\ ~SHOULD_PRINT[s2]
        /\ siteRead[s2] = << [ok |-> TRUE, v |-> "11"] >>

\* C7 as stated: the variable is read once per process, whatever the number
\* of call sites.
C7_Original == EnvReads <= 1

\* hash(u) >= 2^64 - 1024: the values that `as f64` rounds to 2^64
NearMax(x) == x[2] >= 252 /\ \A i \in 3..8 : x[i] = 255

\* C8 (amended): the hash is three multiplications by K modulo 2^64 with
\* x ^= x >> 32 between them (hash(1) = 0xcc4b308a357adf04, hash(2) =
\* 0xea1322cb9217c89d); the hue lies in [0, 360], and is 360 exactly for the
\* inputs with hash(u) >= 2^64 - 1024, for which the sector is 6; for every
\* other input the sector is one of 0..5.
C8_HueRange ==
    bPc = "done" =>
        /\ bX = hash(bU)
        /\ bU = NatToU64(1) => bX = <<4, 223, 122, 53, 138, 48, 75, 204>>
        /\ bU = NatToU64(2) => bX = <<157, 200, 23, 146, 203, 34, 19, 234>>
        /\ FCmp(bH, F360) <= 0
        /\ bSector \in 0..6
        /\ (bSector = 6) <=> (FCmp(bH, F360) = 0)
        /\ (FCmp(bH, F360) = 0) <=> NearMax(bX)

\* C8 witness: an input whose hue is 360.0 and whose sector is 6.
C8_Witness == bPc = "done" /\ bSector = 6 /\ FCmp(bH, F360) = 0

\* C8 as stated: the hue is below 360 and the sector is one of 0..5.
C8_Original == bPc = "done" => (FCmp(bH, F360) < 0 /\ bSector \in 0..5)

=============================================================================
